---- MODULE Spec2Model ----
(***************************************************************************)
(* Blink monitor (src/Untitled-1.ts): the reducer, the per-session refs,   *)
(* the asynchronous start() setup, the FaceMesh frame loop, the frame      *)
(* callback (calibration, blink state machine, rate estimator), the        *)
(* monitor interval and stop().                                            *)
(*                                                                         *)
(* Units.  Times are milliseconds.  EAR values are integers (EAR x 100);   *)
(* the baseline is the exact rational <<sum, n>> (sum / n), <<>> for null. *)
(* secondsSinceBlink holds the published seconds x 1000.  blinksPerMin is  *)
(* the exact rational <<num, den>>.  Floating-point rounding is not        *)
(* modelled.                                                               *)
(***************************************************************************)
EXTENDS Integers, Sequences, FiniteSets, TLC

\* ---------------------------------------------------------------- bounds
MaxStarts == 2          \* start() invocations alive at the same time
\* the values of performance.now() explored, in order
Times == <<0, 3000, 8000, 13000>>
MaxSamples == 2         \* open-eye samples collected during calibration
MaxClosedFrames == 2    \* cap of closedFramesRef
MaxBlinks == 1          \* cap of blinkCountRef
MaxOverlapTime == 0     \* last clock value explored in a run where start()
                        \* was called with an earlier invocation still alive
TimeOrigin == 1000000   \* Date.now() - performance.now()
MaxLingerTime == 8000   \* last clock value explored while something of a
                        \* stopped session is still alive
MaxFaultSlack == 0      \* faults are explored at the last 1 + MaxFaultSlack
                        \* clock values

\* ------------------------------------------------------ program constants
NOTIF_COOLDOWN_MS == 5000
CALIBRATION_MS == 3000
MIN_CLOSED_FRAMES == 2
MIN_BLINK_GAP_MS == 350
ALERT_REPEAT_MS == 2000
BPM_UPDATE_MS == 400
DefaultThreshold == 10
\* CLOSE_RATIO = 0.62, OPEN_RATIO = 0.82, open-sample ratio 0.8, as percents
CLOSE_RATIO == 62
OPEN_RATIO == 82
OPEN_SAMPLE_RATIO == 80

NULL == 0 - 1           \* null of a number | null ref
NoHandle == 0           \* null of a handle ref (handles are truthy, >= 1)
NoError == "null"

Ids == 1..MaxStarts
ThresholdOptions == {5, DefaultThreshold}   \* <option> values explored
EarValues == {0, 20, 30}                    \* EAR x 100 delivered by a frame

Max(a, b) == IF a >= b THEN a ELSE b

RECURSIVE SumSeq(_)
SumSeq(s) == IF s = <<>> THEN 0 ELSE Head(s) + SumSeq(Tail(s))

\* --------------------------------------------------------------- reducer
initialState ==
  [running |-> FALSE, calibrating |-> FALSE, blinks |-> 0,
   blinksPerMin |-> <<0, 1>>, secondsSinceBlink |-> 0, alertOn |-> FALSE,
   noBlinkThreshold |-> DefaultThreshold, agreed |-> FALSE, error |-> NoError,
   notifEnabled |-> TRUE, notifPermission |-> "default"]

reducer(s, a) ==
  CASE a.type = "START" ->
         [initialState EXCEPT !.running = TRUE, !.calibrating = TRUE,
            !.noBlinkThreshold = s.noBlinkThreshold, !.agreed = s.agreed,
            !.notifEnabled = s.notifEnabled,
            !.notifPermission = s.notifPermission]
    [] a.type = "STOP" ->
         [s EXCEPT !.running = FALSE, !.calibrating = FALSE, !.alertOn = FALSE]
    [] a.type = "CALIBRATION_DONE" ->
         [s EXCEPT !.calibrating = FALSE, !.secondsSinceBlink = 0,
                   !.alertOn = FALSE]
    [] a.type = "SET_BLINKS" -> [s EXCEPT !.blinks = a.blinks]
    [] a.type = "SET_BPM" -> [s EXCEPT !.blinksPerMin = a.bpm]
    [] a.type = "SET_SECONDS" -> [s EXCEPT !.secondsSinceBlink = a.seconds]
    [] a.type = "ALERT_ON" -> [s EXCEPT !.alertOn = TRUE]
    [] a.type = "ALERT_OFF" -> [s EXCEPT !.alertOn = FALSE]
    [] a.type = "SET_THRESHOLD" -> [s EXCEPT !.noBlinkThreshold = a.seconds]
    [] a.type = "AGREE" -> [s EXCEPT !.agreed = TRUE]
    [] a.type = "ERROR" ->
         [s EXCEPT !.error = a.message, !.running = FALSE,
                   !.calibrating = FALSE, !.alertOn = FALSE]
    [] a.type = "CLEAR_ERROR" -> [s EXCEPT !.error = NoError]
    [] a.type = "SET_NOTIF_ENABLED" -> [s EXCEPT !.notifEnabled = a.enabled]
    [] a.type = "SET_NOTIF_PERMISSION" -> [s EXCEPT !.notifPermission = a.perm]
    [] OTHER -> s

\* ------------------------------------------------------------------ state
VARIABLES
  state,      \* UiState held by useReducer
  ref,        \* the useRef cells of Page, one field per ref
  pc,         \* pc[i]: the await start() invocation i is at: "load", "gum",
              \* "play", or "idle" when it is not running (not called, returned)
  captured,   \* captured[i]: noBlinkThreshold and notifEnabled of the render
              \* whose start() was called (closed over by the interval callback)
  loop,       \* loop[i]: "off", "pending" (requestAnimationFrame registered)
              \* or "sending" (inside await mesh.send)
  timers,     \* invocations whose setInterval is armed
  tracks,     \* invocations whose MediaStream tracks are live
  script,     \* the face_mesh <script> element: "absent", "loading", "loaded"
              \* or "failed" (in the document, its error event has fired)
  permission, \* Notification.permission; the browser explored has granted it
  clock,      \* performance.now()
  op,         \* the operation that ran last
  emitted,    \* what it emitted: "blink", "beep", "notif"
  hist        \* observations over the run: started (a start() passed its
              \* guard), stopped (stop() returned and no start() since),
              \* overlapped, beepAt and notifAt (clock of the last beep and of
              \* the last notification), beepGap and notifGap (time between
              \* the last two), bpmAt (clock of the last publication of
              \* blinksPerMin)

vars == <<state, ref, pc, captured, loop, timers, tracks, script, permission, clock,
          op, emitted, hist>>

DateNow == TimeOrigin + clock

initialRefs ==
  [streamRef |-> NoHandle, rafRef |-> NoHandle, timerRef |-> NoHandle,
   baselineEarRef |-> <<>>, calibStartRef |-> NULL, maxEarRef |-> 0,
   openSamplesRef |-> <<>>,
   eyeStateRef |-> "OPEN", closedFramesRef |-> 0, lastBlinkMsRef |-> 0,
   lastBlinkAtRef |-> NULL, lastAlertAtRef |-> 0,
   sessionStartRef |-> NULL, blinkCountRef |-> 0,
   audioCtxRef |-> FALSE,
   lastNotifAtRef |-> 0, lastAlertOnRef |-> FALSE,
   lastBpmUpdateRef |-> 0]

resetRefsMut(r) ==
  [r EXCEPT !.baselineEarRef = <<>>, !.calibStartRef = NULL, !.maxEarRef = 0,
            !.openSamplesRef = <<>>,
            !.eyeStateRef = "OPEN", !.closedFramesRef = 0, !.lastBlinkMsRef = 0,
            !.lastBlinkAtRef = NULL,
            !.sessionStartRef = NULL, !.blinkCountRef = 0,
            !.lastBpmUpdateRef = 0,
            !.lastNotifAtRef = 0, !.lastAlertOnRef = FALSE]

resetRefs(r) ==
  [r EXCEPT !.baselineEarRef = <<>>, !.calibStartRef = NULL, !.maxEarRef = 0,
            !.openSamplesRef = <<>>,
            !.eyeStateRef = "OPEN", !.closedFramesRef = 0, !.lastBlinkMsRef = 0,
            !.lastBlinkAtRef = NULL, !.lastAlertAtRef = 0,
            !.sessionStartRef = NULL, !.blinkCountRef = 0,
            !.lastBpmUpdateRef = 0,
            !.lastNotifAtRef = 0, !.lastAlertOnRef = FALSE]

Init ==
  \* after mount: the effect of lines 509-513 has published the permission
  /\ state = reducer(initialState, [type |-> "SET_NOTIF_PERMISSION",
                                    perm |-> "granted"])
  /\ ref = initialRefs
  /\ pc = [i \in Ids |-> "idle"]
  /\ captured = [i \in Ids |-> [noBlinkThreshold |-> DefaultThreshold,
                                notifEnabled |-> TRUE]]
  /\ loop = [i \in Ids |-> "off"]
  /\ timers = {}
  /\ tracks = {}
  /\ script = "absent"
  /\ permission = "granted"
  /\ clock = 0
  /\ op = "init"
  /\ emitted = {}
  /\ hist = [started |-> FALSE, stopped |-> FALSE, overlapped |-> FALSE,
             beepAt |-> NULL, notifAt |-> NULL, beepGap |-> NULL,
             notifGap |-> NULL, bpmAt |-> NULL]

\* ------------------------------------------------ resources and teardown
\* The handles live outside the refs: w = [ref, loop, timers, tracks].
World == [ref |-> ref, loop |-> loop, timers |-> timers, tracks |-> tracks]

cleanupLoopsAndStream(w) ==
  LET raf == w.ref.rafRef
      tmr == w.ref.timerRef
      str == w.ref.streamRef
  IN [ref |-> [w.ref EXCEPT !.rafRef = NoHandle, !.timerRef = NoHandle,
                            !.streamRef = NoHandle],
      \* cancelAnimationFrame only cancels a request that has not fired yet
      loop |-> [i \in Ids |->
                  IF i = raf /\ w.loop[i] = "pending" THEN "off" ELSE w.loop[i]],
      timers |-> w.timers \ {tmr},
      tracks |-> w.tracks \ {str}]

stopStateMut(s) == initialState

\* stop(): STOP, teardown, close the audio context
stopState(s) == reducer(s, [type |-> "STOP"])

stopWorld(w) ==
  LET c == cleanupLoopsAndStream(w)
  IN [c EXCEPT !.ref.audioCtxRef = FALSE]

\* ------------------------------------------------------- frame callback
\* cur < baseline * ratio and cur > baseline * ratio, baseline = b[1] / b[2]
Below(cur, b, ratio) == cur * b[2] * 100 < b[1] * ratio
Above(cur, b, ratio) == cur * b[2] * 100 > b[1] * ratio

isOpenSample(cur, maxEar) == cur * 100 > maxEar * OPEN_SAMPLE_RATIO

RECURSIVE Gcd(_, _)
Gcd(a, b) == IF b = 0 THEN a ELSE Gcd(b, a % b)

\* the rational num / den in lowest terms
Ratio(num, den) ==
  LET g == Gcd(num, den) IN <<num \div g, den \div g>>

baselineOfMut(samples, maxEar) == <<maxEar, 1>>

baselineOf(samples, maxEar) ==
  IF Len(samples) > 0 THEN Ratio(SumSeq(samples), Len(samples))
  ELSE <<maxEar, 1>>

calibrationExpiredMut(r, now) == TRUE

calibrationExpired(r, now) ==
  now - (IF r.calibStartRef = NULL THEN now ELSE r.calibStartRef)
    >= CALIBRATION_MS

calibrateMut(s, r, cur, now) ==
  LET r1 == [r EXCEPT !.calibStartRef = IF @ = NULL THEN now ELSE @]
      r2 == [r1 EXCEPT !.maxEarRef = Max(@, cur)]
      r3 == IF isOpenSample(cur, r2.maxEarRef)
            THEN [r2 EXCEPT !.openSamplesRef = Append(@, cur)] ELSE r2
  IN IF calibrationExpired(r3, now)
     THEN [state |-> reducer(reducer(s, [type |-> "SET_SECONDS", seconds |-> 0]),
                             [type |-> "ALERT_OFF"]),
           ref |-> [r3 EXCEPT
                      !.baselineEarRef = baselineOf(r3.openSamplesRef, r3.maxEarRef),
                      !.lastBlinkAtRef = now],
           blink |-> FALSE]
     ELSE [state |-> s, ref |-> r3, blink |-> FALSE]

\* lines 380-398: returns [state, ref, blink]
calibrate(s, r, cur, now) ==
  LET r1 == [r EXCEPT !.calibStartRef = IF @ = NULL THEN now ELSE @]
      r2 == [r1 EXCEPT !.maxEarRef = Max(@, cur)]
      r3 == IF isOpenSample(cur, r2.maxEarRef)
            THEN [r2 EXCEPT !.openSamplesRef = Append(@, cur)] ELSE r2
  IN IF calibrationExpired(r3, now)
     THEN [state |-> reducer(reducer(reducer(s, [type |-> "CALIBRATION_DONE"]),
                                     [type |-> "SET_SECONDS", seconds |-> 0]),
                             [type |-> "ALERT_OFF"]),
           ref |-> [r3 EXCEPT
                      !.baselineEarRef = baselineOf(r3.openSamplesRef, r3.maxEarRef),
                      !.lastBlinkAtRef = now],
           blink |-> FALSE]
     ELSE [state |-> s, ref |-> r3, blink |-> FALSE]

longEnoughMut(r) == r.closedFramesRef >= 1

longEnough(r) == r.closedFramesRef >= MIN_CLOSED_FRAMES
farEnough(r, now) == now - r.lastBlinkMsRef >= MIN_BLINK_GAP_MS

countBlinkMut(s, r, now) ==
  LET n == r.blinkCountRef + 1
  IN [state |-> reducer(reducer(s, [type |-> "SET_BLINKS", blinks |-> n]),
                        [type |-> "SET_SECONDS", seconds |-> 0]),
      ref |-> [r EXCEPT !.blinkCountRef = n, !.lastBlinkMsRef = now,
                        !.lastBlinkAtRef = now],
      blink |-> TRUE]

\* lines 418-427: the qualified blink
countBlink(s, r, now) ==
  LET n == r.blinkCountRef + 1
  IN [state |-> reducer(reducer(reducer(s, [type |-> "SET_BLINKS", blinks |-> n]),
                                [type |-> "SET_SECONDS", seconds |-> 0]),
                        [type |-> "ALERT_OFF"]),
      ref |-> [r EXCEPT !.blinkCountRef = n, !.lastBlinkMsRef = now,
                        !.lastBlinkAtRef = now],
      blink |-> TRUE]

detectBlinkMut(s, r, cur, now) ==
  LET b == r.baselineEarRef
  IN IF r.eyeStateRef = "OPEN"
     THEN IF Below(cur, b, CLOSE_RATIO)
          THEN [state |-> s,
                ref |-> [r EXCEPT !.closedFramesRef = 1, !.eyeStateRef = "CLOSED"],
                blink |-> FALSE]
          ELSE [state |-> s, ref |-> r, blink |-> FALSE]
     ELSE LET r1 == IF Below(cur, b, CLOSE_RATIO)
                    THEN [r EXCEPT !.closedFramesRef = @ + 1] ELSE r
          IN IF Above(cur, b, OPEN_RATIO)
             THEN LET q == IF longEnough(r1) /\ farEnough(r1, now)
                           THEN countBlink(s, r1, now)
                           ELSE [state |-> s, ref |-> r1, blink |-> FALSE]
                  IN [q EXCEPT !.ref.eyeStateRef = "OPEN",
                               !.ref.closedFramesRef =
                                  IF q.blink THEN 0 ELSE @]
             ELSE [state |-> s, ref |-> r1, blink |-> FALSE]

\* lines 406-432: the blink state machine
detectBlink(s, r, cur, now) ==
  LET b == r.baselineEarRef
  IN IF r.eyeStateRef = "OPEN"
     THEN IF Below(cur, b, CLOSE_RATIO)
          THEN [state |-> s,
                ref |-> [r EXCEPT !.closedFramesRef = 1, !.eyeStateRef = "CLOSED"],
                blink |-> FALSE]
          ELSE [state |-> s, ref |-> r, blink |-> FALSE]
     ELSE LET r1 == IF Below(cur, b, CLOSE_RATIO)
                    THEN [r EXCEPT !.closedFramesRef = @ + 1] ELSE r
          IN IF Above(cur, b, OPEN_RATIO)
             THEN LET q == IF longEnough(r1) /\ farEnough(r1, now)
                           THEN countBlink(s, r1, now)
                           ELSE [state |-> s, ref |-> r1, blink |-> FALSE]
                  IN [q EXCEPT !.ref.eyeStateRef = "OPEN",
                               !.ref.closedFramesRef = 0]
             ELSE [state |-> s, ref |-> r1, blink |-> FALSE]

BpmMut(count, elapsedMs) ==
  IF elapsedMs > 0 THEN Ratio(count * 1000, elapsedMs) ELSE <<0, 1>>

Bpm(count, elapsedMs) ==
  IF elapsedMs > 0 THEN Ratio(count * 60000, elapsedMs) ELSE <<0, 1>>

bpmDueMut(r, now) == TRUE

\* line 439
bpmDue(r, now) == now - r.lastBpmUpdateRef >= BPM_UPDATE_MS

\* lines 434-442: the rate estimator
updateBpm(x, now) ==
  LET r1 == [x.ref EXCEPT !.sessionStartRef = IF @ = NULL THEN now ELSE @]
      bpm == Bpm(r1.blinkCountRef, now - r1.sessionStartRef)
  IN IF bpmDue(r1, now)
     THEN [x EXCEPT !.ref = [r1 EXCEPT !.lastBpmUpdateRef = now],
                    !.state = reducer(x.state, [type |-> "SET_BPM", bpm |-> bpm])]
     ELSE [x EXCEPT !.ref = r1]

onResultsNoFaceMut(s, r, faces, cur, now) ==
  IF ~faces
  THEN [state |-> s,
        ref |-> [r EXCEPT !.eyeStateRef = "OPEN", !.closedFramesRef = 0],
        blink |-> FALSE]
  ELSE IF r.baselineEarRef = <<>> THEN calibrate(s, r, cur, now)
  ELSE updateBpm(detectBlink(s, r, cur, now), now)

onResultsRecalibrateMut(s, r, faces, cur, now) ==
  IF ~faces THEN [state |-> s, ref |-> r, blink |-> FALSE]
  ELSE IF r.baselineEarRef = <<>> \/ r.eyeStateRef = "OPEN"
  THEN calibrate(s, r, cur, now)
  ELSE updateBpm(detectBlink(s, r, cur, now), now)

\* lines 365-443: mesh.onResults
onResults(s, r, faces, cur, now) ==
  IF ~faces THEN [state |-> s, ref |-> r, blink |-> FALSE]
  ELSE IF r.baselineEarRef = <<>> THEN calibrate(s, r, cur, now)
  ELSE updateBpm(detectBlink(s, r, cur, now), now)

\* ------------------------------------------------------ monitor interval
baselineMissing(r) == r.baselineEarRef = <<>> \/ r.baselineEarRef[1] = 0

secondsSince(r, now) ==
  Max(0, now - (IF r.lastBlinkAtRef = NULL THEN now ELSE r.lastBlinkAtRef))

reachedThreshold(sec, thr) == sec >= thr * 1000

\* lines 269-286: returns [ref, shown]
showAlertNotification(r, enabled, perm, dnow) ==
  IF ~enabled \/ perm # "granted" \/ dnow - r.lastNotifAtRef < NOTIF_COOLDOWN_MS
  THEN [ref |-> r, shown |-> FALSE]
  ELSE [ref |-> [r EXCEPT !.lastNotifAtRef = dnow], shown |-> TRUE]

beepDueMut(r, now) == TRUE

beepDue(r, now) == now - r.lastAlertAtRef >= ALERT_REPEAT_MS

\* lines 463-491: returns [state, ref, out]
monitor(s, r, cap, perm, now, dnow) ==
  IF baselineMissing(r) THEN [state |-> s, ref |-> r, out |-> {}]
  ELSE
    LET sec == secondsSince(r, now)
        s1 == reducer(s, [type |-> "SET_SECONDS", seconds |-> sec])
    IN IF reachedThreshold(sec, cap.noBlinkThreshold)
       THEN LET n == showAlertNotification([r EXCEPT !.lastAlertOnRef = TRUE],
                                           cap.notifEnabled, perm, dnow)
                due == beepDue(n.ref, now)
            IN [state |-> reducer(s1, [type |-> "ALERT_ON"]),
                ref |-> IF due
                        THEN [n.ref EXCEPT !.lastAlertAtRef = now,
                                           !.audioCtxRef = TRUE]
                        ELSE n.ref,
                out |-> (IF n.shown THEN {"notif"} ELSE {})
                          \cup (IF due THEN {"beep"} ELSE {})]
       ELSE [state |-> reducer(s1, [type |-> "ALERT_OFF"]),
             ref |-> [r EXCEPT !.lastAlertOnRef = FALSE],
             out |-> {}]

\* ---------------------------------------------------------------- actions
\* an invocation slot is free once nothing of it is left
FreeId(i) ==
  /\ pc[i] = "idle"
  /\ loop[i] = "off"
  /\ i \notin timers
  /\ i \notin tracks

\* something of an earlier invocation is still alive
Lingering == \E i \in Ids : ~FreeId(i)

consentedMut(s) == TRUE

\* the guard of start() (line 328)
consented(s) == s.agreed

Obs(name, out) ==
  /\ op' = name
  /\ emitted' = out
  /\ hist' = [hist EXCEPT
                !.started = @ \/ (name = "start" /\ consented(state)),
                !.stopped = IF name = "stop" THEN TRUE
                            ELSE IF name = "start" /\ consented(state) THEN FALSE
                            ELSE @,
                !.overlapped = @ \/ (name = "start" /\ consented(state)
                                      /\ Lingering),
                !.beepGap = IF "beep" \in out /\ hist.beepAt # NULL
                            THEN clock - hist.beepAt ELSE @,
                !.notifGap = IF "notif" \in out /\ hist.notifAt # NULL
                             THEN clock - hist.notifAt ELSE @,
                !.bpmAt = IF "bpm" \in out THEN clock ELSE @,
                !.beepAt = IF "beep" \in out THEN clock ELSE @,
                !.notifAt = IF "notif" \in out THEN clock ELSE @]

noClosure == [noBlinkThreshold |-> DefaultThreshold, notifEnabled |-> TRUE]

\* The world after a teardown.  Invocation numbers are only names: what is
\* left alive is renumbered 1, 2, ... in order, and the closure of an
\* invocation of which nothing is left (no await, no loop, no interval, no
\* stream) is dropped.
SetWorld(w, p) ==
  LET alive == {i \in Ids : ~(p[i] = "idle" /\ w.loop[i] = "off"
                              /\ i \notin w.timers /\ i \notin w.tracks)}
      rank(i) == Cardinality({j \in alive : j <= i})
      src(k) == CHOOSE i \in alive : rank(i) = k
      live(k) == k <= Cardinality(alive)
      handle(h) == IF h = NoHandle THEN NoHandle ELSE rank(h)
  IN /\ ref' = [w.ref EXCEPT !.rafRef = handle(@), !.timerRef = handle(@),
                            !.streamRef = handle(@)]
     /\ loop' = [k \in Ids |-> IF live(k) THEN w.loop[src(k)] ELSE "off"]
     /\ timers' = {rank(i) : i \in w.timers}
     /\ tracks' = {rank(i) : i \in w.tracks}
     /\ pc' = [k \in Ids |-> IF live(k) THEN p[src(k)] ELSE "idle"]
     /\ captured' = [k \in Ids |->
                       IF live(k) THEN captured[src(k)] ELSE noClosure]

\* the Start/Stop button while not running (line 631): start(), lines 327-335
Start ==
  /\ ~state.running
  /\ Lingering => clock <= MaxOverlapTime
  /\ Obs("start", {})
  /\ IF ~consented(state)
     THEN UNCHANGED <<state, ref, pc, captured, loop, timers, tracks, script,
                      permission, clock>>
     ELSE /\ \E i \in Ids :
               /\ FreeId(i)
               /\ \A j \in Ids : FreeId(j) => i <= j
               \* loadScriptOnce (lines 25-45): on an element whose error
               \* event has fired the promise never settles, and nothing of
               \* the invocation runs again
               /\ pc' = [pc EXCEPT ![i] = IF script = "failed" THEN "idle"
                                          ELSE "load"]
               /\ captured' = [captured EXCEPT ![i] =
                    IF script = "failed" THEN noClosure
                    ELSE [noBlinkThreshold |-> state.noBlinkThreshold,
                          notifEnabled |-> state.notifEnabled]]
          /\ script' = IF script = "absent" THEN "loading" ELSE script
          /\ state' = reducer(reducer(state, [type |-> "CLEAR_ERROR"]),
                              [type |-> "START"])
          /\ ref' = resetRefs(ref)
          /\ UNCHANGED <<loop, timers, tracks, permission, clock>>

\* await loadScriptOnce resolves (line 335)
ScriptLoaded(i) ==
  /\ pc[i] = "load"
  /\ script \in {"loading", "loaded"}
  /\ script' = "loaded"
  /\ pc' = [pc EXCEPT ![i] = "gum"]
  /\ Obs("other", {})
  /\ UNCHANGED <<state, ref, captured, loop, timers, tracks, permission, clock>>

\* await getUserMedia resolves; video.play() is called (lines 337-346)
StreamAcquired(i) ==
  /\ pc[i] = "gum"
  /\ pc' = [pc EXCEPT ![i] = "play"]
  /\ ref' = [ref EXCEPT !.streamRef = i]
  /\ tracks' = tracks \cup {i}
  /\ Obs("other", {})
  /\ UNCHANGED <<state, captured, loop, timers, script, permission, clock>>

\* await video.play() resolves; the loop and the interval are registered
\* (lines 348-491)
SetupDone(i) ==
  /\ pc[i] = "play"
  /\ pc' = [pc EXCEPT ![i] = "idle"]
  /\ ref' = [ref EXCEPT !.rafRef = i, !.timerRef = i]
  /\ loop' = [loop EXCEPT ![i] = "pending"]
  /\ timers' = timers \cup {i}
  /\ Obs("other", {})
  /\ UNCHANGED <<state, captured, tracks, script, permission, clock>>

\* the steps of the try block that can throw, by where the invocation is
FailSteps(p) ==
  CASE p = "load" -> {"script"}
    [] p = "gum" -> {"camera", "video"}
    [] p = "play" -> {"play", "context", "FaceMesh"}
    [] OTHER -> {}

\* catch (lines 492-495); "video" throws after the stream was stored
SetupFailed(i, step) ==
  /\ step \in FailSteps(pc[i])
  /\ step = "script" => script \in {"loading", "failed"}
  /\ script' = IF step = "script" THEN "failed" ELSE script
  /\ LET w0 == IF step = "video"
               THEN [World EXCEPT !.ref.streamRef = i,
                                  !.tracks = tracks \cup {i}]
               ELSE World
     IN SetWorld(cleanupLoopsAndStream(w0), [pc EXCEPT ![i] = "idle"])
  /\ state' = reducer(state, [type |-> "ERROR", message |-> step])
  /\ Obs("fail", {})
  /\ UNCHANGED <<permission, clock>>

StopBody ==
  /\ state' = stopState(state)
  /\ SetWorld(stopWorld(World), pc)
  /\ Obs("stop", {})
  /\ UNCHANGED <<script, permission, clock>>

\* the Start/Stop button while running (line 631)
ClickStop == state.running /\ StopBody

\* visibilitychange with the page hidden (lines 516-523)
PageHidden == state.running /\ StopBody

\* the cleanup of the last effect (lines 525-528)
EffectCleanup == StopBody

\* requestAnimationFrame fires loop (lines 446-459)
RafFire(i, ready) ==
  /\ loop[i] = "pending"
  /\ IF ready
     THEN loop' = [loop EXCEPT ![i] = "sending"] /\ UNCHANGED ref
     ELSE ref' = [ref EXCEPT !.rafRef = i] /\ UNCHANGED loop
  /\ Obs("other", {})
  /\ UNCHANGED <<state, pc, captured, timers, tracks, script, permission, clock>>

\* mesh.send calls onResults and resolves; loop registers itself again
Frame(i, faces, cur) ==
  /\ loop[i] = "sending"
  /\ LET x == onResults(state, ref, faces, cur, clock)
     IN /\ Len(x.ref.openSamplesRef) <= MaxSamples
        /\ x.ref.closedFramesRef <= MaxClosedFrames
        /\ x.ref.blinkCountRef <= MaxBlinks
        /\ state' = x.state
        /\ ref' = [x.ref EXCEPT !.rafRef = i]
        /\ Obs(IF faces THEN "frame" ELSE "noface",
               (IF x.blink THEN {"blink"} ELSE {})
                 \cup (IF faces /\ ref.baselineEarRef # <<>> /\ bpmDue(ref, clock)
                       THEN {"bpm"} ELSE {}))
  /\ loop' = [loop EXCEPT ![i] = "pending"]
  /\ UNCHANGED <<pc, captured, timers, tracks, script, permission, clock>>

\* the setInterval callback of invocation i (lines 463-491)
Tick(i) ==
  /\ i \in timers
  /\ LET x == monitor(state, ref, captured[i], permission, clock, DateNow)
     IN /\ state' = x.state
        /\ ref' = x.ref
        /\ Obs("tick", x.out)
  /\ UNCHANGED <<pc, captured, loop, timers, tracks, script, permission, clock>>

\* where a fault is explored: in a running session, with nothing of another
\* invocation alive, at the last clock values
FaultTime ==
  /\ state.running
  /\ Cardinality({i \in Ids : ~FreeId(i)}) = 1
  /\ \E k \in 1..Len(Times) :
       k >= Len(Times) - MaxFaultSlack /\ clock = Times[k]

\* mesh.send rejects, or onResults throws on a missing landmark before it
\* has written anything (lines 368-377, 455): loop's promise rejects and
\* line 458 is not reached
FrameFault(i) ==
  /\ FaultTime
  /\ loop[i] = "sending"
  /\ loop' = [loop EXCEPT ![i] = "off"]
  /\ Obs("fault", {"fault"})
  /\ UNCHANGED <<state, ref, pc, captured, timers, tracks, script, permission,
               clock>>

\* beep() throws in the interval callback (new AudioContext, lines 226-228):
\* everything before the call has happened, the interval stays armed
TickFault(i) ==
  /\ FaultTime
  /\ i \in timers
  /\ LET x == monitor(state, ref, captured[i], permission, clock, DateNow)
     IN /\ "beep" \in x.out
        /\ state' = x.state
        /\ ref' = [x.ref EXCEPT !.audioCtxRef = ref.audioCtxRef]
        /\ Obs("tick", (x.out \ {"beep"}) \cup {"fault"})
  /\ UNCHANGED <<pc, captured, loop, timers, tracks, script, permission, clock>>

Agree ==
  /\ ~state.agreed
  /\ state' = reducer(state, [type |-> "AGREE"])
  /\ Obs("other", {})
  /\ UNCHANGED <<ref, pc, captured, loop, timers, tracks, script, permission,
               clock>>

\* the <select>, disabled while running (lines 652-663)
SetThreshold(seconds) ==
  /\ ~state.running
  /\ \A i \in Ids : FreeId(i)   \* explored between sessions only
  /\ state' = reducer(state, [type |-> "SET_THRESHOLD", seconds |-> seconds])
  /\ Obs("other", {})
  /\ UNCHANGED <<ref, pc, captured, loop, timers, tracks, script, permission,
               clock>>

\* the checkbox (lines 670-676)
SetNotifEnabled(enabled) ==
  \* explored between sessions and in a running session that no earlier
  \* invocation has outlived
  /\ Lingering => (state.running /\ ~hist.overlapped /\ ~hist.stopped)
  /\ state' = reducer(state, [type |-> "SET_NOTIF_ENABLED", enabled |-> enabled])
  /\ Obs("other", {})
  /\ UNCHANGED <<ref, pc, captured, loop, timers, tracks, script, permission,
               clock>>

\* time passes
Advance ==
  /\ \E k \in 1..(Len(Times) - 1) : clock = Times[k] /\ clock' = Times[k + 1]
  /\ hist.overlapped => clock' <= MaxOverlapTime
  /\ (~state.running /\ Lingering) => clock' <= MaxLingerTime
  /\ Obs("other", {})
  /\ UNCHANGED <<state, ref, pc, captured, loop, timers, tracks, script,
               permission>>

Next ==
  \/ Start
  \/ \E i \in Ids : ScriptLoaded(i)
  \/ \E i \in Ids : StreamAcquired(i)
  \/ \E i \in Ids : SetupDone(i)
  \/ \E i \in Ids, step \in {"script", "camera", "video", "play", "context",
                             "FaceMesh"} : SetupFailed(i, step)
  \/ ClickStop
  \/ PageHidden
  \/ EffectCleanup
  \/ \E i \in Ids, ready \in BOOLEAN : RafFire(i, ready)
  \/ \E i \in Ids, cur \in EarValues : Frame(i, TRUE, cur)
  \/ \E i \in Ids : Frame(i, FALSE, 0)
  \/ \E i \in Ids : Tick(i)
  \/ \E i \in Ids : FrameFault(i)
  \/ \E i \in Ids : TickFault(i)
  \/ Agree
  \/ \E seconds \in ThresholdOptions : SetThreshold(seconds)
  \/ \E enabled \in BOOLEAN : SetNotifEnabled(enabled)
  \/ Advance

Spec == Init /\ [][Next]_vars

\* A session that only runs: no stop, no failure, no change of settings
\* after the first start.  The interval fires fairly.
LiveNext ==
  \/ Agree
  \/ \E seconds \in ThresholdOptions : SetThreshold(seconds)
  \/ Start
  \/ \E i \in Ids : ScriptLoaded(i)
  \/ \E i \in Ids : StreamAcquired(i)
  \/ \E i \in Ids : SetupDone(i)
  \/ \E i \in Ids, ready \in BOOLEAN : RafFire(i, ready)
  \/ \E i \in Ids, cur \in EarValues : Frame(i, TRUE, cur)
  \/ \E i \in Ids : Tick(i)
  \/ Advance

LiveSpec == Init /\ [][LiveNext]_vars /\ WF_vars(\E i \in Ids : Tick(i))

\* ------------------------------------------------------------------ claims
sinceBlink == clock - ref.lastBlinkAtRef
calibrated == ref.baselineEarRef # <<>>
frameRan == op \in {"frame", "noface"}

\* the condition of C1 on a frame delivering cur, read in the state before it
BlinkCase(cur) ==
  /\ ref.eyeStateRef = "CLOSED"
  /\ cur * ref.baselineEarRef[2] * 100 > ref.baselineEarRef[1] * 82
  /\ ref.closedFramesRef >= 2
  /\ clock - ref.lastBlinkMsRef >= 350

ReopenCase(cur) ==
  /\ ref.eyeStateRef = "CLOSED"
  /\ cur * ref.baselineEarRef[2] * 100 > ref.baselineEarRef[1] * 82

\* C1: on a frame after calibration a blink is emitted if and only if the eye
\* was CLOSED, the EAR is above the open threshold, closedFrameCount >= 2 and
\* at least 350 ms have passed since the last counted blink; a reopening
\* that does not qualify emits nothing and still leaves OPEN with count 0.
C1_BlinkIff ==
  [][\A i \in Ids, cur \in EarValues :
       (calibrated /\ Frame(i, TRUE, cur)) =>
         /\ ("blink" \in emitted') <=> BlinkCase(cur)
         /\ ReopenCase(cur) =>
              ref'.eyeStateRef = "OPEN" /\ ref'.closedFramesRef = 0]_vars

C1_Witness == op = "frame" /\ "blink" \in emitted /\ ref.eyeStateRef = "OPEN"

\* C2: a blink event adds exactly 1 to blinkCount and to the published blinks,
\* sets lastBlinkAt to the frame time, publishes 0 seconds and clears the
\* alert flag; a frame without a blink event leaves blinkCount alone.
C2_BlinkEffect ==
  [][/\ "blink" \in emitted' =>
          /\ ref'.blinkCountRef = ref.blinkCountRef + 1
          /\ state'.blinks = state.blinks + 1
          /\ ref'.lastBlinkAtRef = clock
          /\ state'.secondsSinceBlink = 0
          /\ ~state'.alertOn
     /\ (op' \in {"frame", "noface"} /\ "blink" \notin emitted') =>
          /\ ref'.blinkCountRef = ref.blinkCountRef
          /\ state'.blinks = state.blinks]_vars

C2_Witness ==
  "blink" \in emitted /\ ref.lastAlertOnRef /\ ~state.alertOn /\ state.blinks = 1

\* C3: while a calibrated session keeps running the alert flag goes from
\* false to true exactly on a monitor tick taken when the time since the last
\* blink has reached noBlinkThreshold, and from true to false exactly on a
\* blink event.
C3_AlertFlips ==
  [][(state.running /\ state'.running /\ calibrated) =>
       /\ (~state.alertOn /\ state'.alertOn) <=>
            (~state.alertOn /\ op' = "tick"
               /\ sinceBlink >= state.noBlinkThreshold * 1000)
       /\ (state.alertOn /\ ~state'.alertOn) <=>
            (state.alertOn /\ "blink" \in emitted')]_vars

\* C4: in a running, calibrated session, once noBlinkThreshold seconds have
\* passed without a blink, the alert flag becomes true (or a blink or a stop
\* ends the case) when only the interval keeps firing.
AlertOverdue ==
  /\ state.running
  /\ calibrated
  /\ sinceBlink >= state.noBlinkThreshold * 1000

C4_AlertEventually ==
  (AlertOverdue /\ ~state.alertOn) ~> (state.alertOn \/ ~AlertOverdue)

\* C5: two successive notifications are at least 5000 ms apart, two
\* successive beeps at least 2000 ms apart, and a beep or a notification
\* comes only from a monitor tick that found the seconds since the last
\* blink at or above its noBlinkThreshold and set the alert flag.
C5_Cooldowns ==
  /\ hist.notifGap # NULL => hist.notifGap >= 5000
  /\ hist.beepGap # NULL => hist.beepGap >= 2000
  /\ emitted \cap {"beep", "notif"} # {} =>
       /\ op = "tick"
       /\ state.alertOn
       /\ \E i \in timers :
            state.secondsSinceBlink >= captured[i].noBlinkThreshold * 1000

C5_Witness ==
  /\ hist.notifGap # NULL /\ hist.beepGap # NULL
  /\ emitted = {"beep", "notif"}

\* C6: between the return of stop() and the next start() no frame callback
\* and no monitor tick runs.
C6_NothingAfterStop == ~(hist.stopped /\ (frameRan \/ op = "tick"))

\* C7: in every quiescent state (no start() awaiting, no frame being sent)
\* with running = false no stream is live, no interval is armed and no
\* animation frame is requested.
Quiescent == \A i \in Ids : pc[i] = "idle" /\ loop[i] # "sending"

C7_Released ==
  (Quiescent /\ ~state.running) =>
     tracks = {} /\ timers = {} /\ \A i \in Ids : loop[i] = "off"

\* C8: start() without consent changes nothing, so running implies agreed.
C8_NoConsentNoStart ==
  /\ [](state.running => state.agreed)
  /\ [][(op' = "start" /\ ~state.agreed) =>
          UNCHANGED <<state, ref, pc, captured, loop, timers, tracks,
                      script>>]_vars

C8_Witness == op = "start" /\ ~state.agreed /\ ~state.running

\* C9: after a failed setup step running, calibrating and alertOn are false,
\* the error is set, no stream is live and no loop or interval is left.
C9_FailureCleansUp ==
  op = "fail" =>
     /\ ~state.running /\ ~state.calibrating /\ ~state.alertOn
     /\ state.error # NoError
     /\ tracks = {}
     /\ timers = {}
     /\ \A i \in Ids : loop[i] = "off"

\* C10: stop() before any start(), or right after a stop(), changes no
\* published field and no per-session variable.
C10_StopIdempotent ==
  [][(op' = "stop" /\ (~hist.started \/ op = "stop")) =>
       UNCHANGED <<state, ref, pc, captured, loop, timers, tracks>>]_vars

C10_Witness == op = "stop" /\ ~hist.started /\ state.agreed

\* C11: a start() with consent clears the error, puts every per-session
\* variable and the published blinks, blinksPerMin, secondsSinceBlink and
\* alertOn back to their initial values with running = calibrating = TRUE,
\* and leaves noBlinkThreshold, agreed, notifEnabled and notifPermission
\* as they were.
C11_StartResets ==
  [][(op' = "start" /\ state.agreed) =>
       /\ state' = [running |-> TRUE, calibrating |-> TRUE, blinks |-> 0,
                    blinksPerMin |-> <<0, 1>>, secondsSinceBlink |-> 0,
                    alertOn |-> FALSE,
                    noBlinkThreshold |-> state.noBlinkThreshold,
                    agreed |-> state.agreed, error |-> "null",
                    notifEnabled |-> state.notifEnabled,
                    notifPermission |-> state.notifPermission]
       /\ ref'.baselineEarRef = <<>>
       /\ ref'.calibStartRef = 0 - 1
       /\ ref'.maxEarRef = 0
       /\ ref'.openSamplesRef = <<>>
       /\ ref'.eyeStateRef = "OPEN"
       /\ ref'.closedFramesRef = 0
       /\ ref'.blinkCountRef = 0
       /\ ref'.lastBlinkAtRef = 0 - 1
       /\ ref'.lastBlinkMsRef = 0
       /\ ref'.sessionStartRef = 0 - 1
       /\ ref'.lastAlertAtRef = 0
       /\ ref'.lastNotifAtRef = 0
       /\ ref'.lastBpmUpdateRef = 0
       /\ ~ref'.lastAlertOnRef]_vars

\* a start() after a session that beeped
C11_Witness ==
  /\ op = "start" /\ state.running
  /\ hist.beepAt # NULL
  /\ state.noBlinkThreshold = 5

\* C12: every calibration frame updates the running maximum and collects its
\* EAR when it is above 0.8 x that maximum; the first frame at least
\* CALIBRATION_MS after the first one sets the baseline to the arithmetic
\* mean of the collected samples, or to the running maximum when none was
\* collected, and no earlier frame sets it.
C12_Baseline ==
  [][\A i \in Ids, cur \in EarValues :
       (~calibrated /\ op' = "frame" /\ Frame(i, TRUE, cur)) =>
          LET began == IF ref.calibStartRef = 0 - 1 THEN clock
                       ELSE ref.calibStartRef
              top == IF cur > ref.maxEarRef THEN cur ELSE ref.maxEarRef
              open == IF cur * 10 > top * 8
                      THEN Append(ref.openSamplesRef, cur)
                      ELSE ref.openSamplesRef
              b == ref'.baselineEarRef
          IN /\ ref'.maxEarRef = top
             /\ ref'.openSamplesRef = open
             /\ IF clock - began >= 3000
                THEN /\ b # <<>>
                     /\ IF Len(open) > 0
                        THEN b[1] * Len(open) = SumSeq(open) * b[2]
                        ELSE b[1] = top * b[2]
                ELSE b = <<>>]_vars

\* a baseline that is the mean of two different samples
C12_Witness ==
  /\ op = "frame"
  /\ ref.openSamplesRef = <<20, 30>>
  /\ ref.baselineEarRef = <<25, 1>>
  /\ ref.blinkCountRef = 0 /\ ref.sessionStartRef = NULL

\* C13: after a fault raised in the frame loop, the frame callback or the
\* monitor tick of a running session, running is false and the error
\* message is set.
C13_FaultStops ==
  "fault" \in emitted => (~state.running /\ state.error # NoError)

\* C14: a frame result without a face changes no published field and no ref
\* of the session (the loop only registers its next animation frame).
C14_NoFaceNoChange ==
  [][op' = "noface" =>
       /\ state' = state
       /\ [ref' EXCEPT !.rafRef = ref.rafRef] = ref
       /\ emitted' = {}
       /\ UNCHANGED <<timers, tracks>>]_vars

\* a faceless frame in the middle of a closure, with the alert on
C14_Witness ==
  /\ op = "noface" /\ state.running
  /\ ref.eyeStateRef = "CLOSED"
  /\ state.alertOn

\* C15: a monitor tick of a running session changes nothing and produces
\* nothing while no baseline is set; once the baseline is set it publishes
\* secondsSinceBlink = max(0, now - lastBlinkAt) and sets the alert flag to
\* (secondsSinceBlink >= noBlinkThreshold).
C15_TickEffect ==
  [][(op' = "tick" /\ state.running) =>
       IF calibrated
       THEN LET sec == IF sinceBlink > 0 THEN sinceBlink ELSE 0
            IN /\ state'.secondsSinceBlink = sec
               /\ state'.alertOn = (sec >= state.noBlinkThreshold * 1000)
       ELSE /\ state' = state
            /\ ref' = ref
            /\ emitted' = {}]_vars

\* C16: closedFrameCount is 0 whenever the eye state is OPEN and at least 1
\* whenever it is CLOSED, and it never decreases across a step that starts
\* and ends CLOSED.
C16_ClosedFrames ==
  /\ [](/\ ref.eyeStateRef = "OPEN" => ref.closedFramesRef = 0
        /\ ref.eyeStateRef = "CLOSED" => ref.closedFramesRef >= 1)
  /\ [][(ref.eyeStateRef = "CLOSED" /\ ref'.eyeStateRef = "CLOSED") =>
          ref'.closedFramesRef >= ref.closedFramesRef]_vars

\* a second consecutive closed frame
C16_Witness ==
  op = "frame" /\ ref.eyeStateRef = "CLOSED" /\ ref.closedFramesRef = 2

\* C17: while running, exactly one of "calibrating is published" and "the
\* baseline is set" holds.
C17_CalibratingXorBaseline ==
  state.running => (state.calibrating <=> ~calibrated)

\* a running session right after the frame that set the baseline
C17_Witness ==
  /\ op = "frame" /\ state.running /\ ~state.calibrating /\ calibrated
  /\ ref.lastBlinkAtRef = clock
  /\ ref.sessionStartRef = NULL

\* C18: between two start() calls a baseline that is set keeps its value,
\* and a step taken with the baseline set leaves the calibration start, the
\* running maximum and the sample list alone; the calibration-complete
\* transition (baseline unset to set) therefore happens at most once per
\* session, and it is the step that sets lastBlinkAt to now, publishes 0
\* seconds, and clears calibrating and the alert flag.
C18_CalibratesOnce ==
  [][/\ (calibrated /\ ~(op' = "start" /\ state.agreed)) =>
          /\ ref'.baselineEarRef = ref.baselineEarRef
          /\ ref'.calibStartRef = ref.calibStartRef
          /\ ref'.maxEarRef = ref.maxEarRef
          /\ ref'.openSamplesRef = ref.openSamplesRef
     /\ (~calibrated /\ calibrated') =>
          /\ op' = "frame"
          /\ ref'.lastBlinkAtRef = clock
          /\ state'.secondsSinceBlink = 0
          /\ ~state'.calibrating /\ ~state'.alertOn]_vars

\* a frame processed after the baseline was set: it counted a blink
C18_Witness ==
  /\ op = "frame" /\ calibrated
  /\ ref.sessionStartRef # NULL
  /\ ref.maxEarRef = 20
  /\ ref.eyeStateRef = "OPEN"
  /\ state.blinks = 1

\* C19: whenever a frame publishes blinksPerMin, the value is the blinkCount
\* after that frame's blink detection divided by the minutes since
\* sessionStart (0 when no time has elapsed), and two successive
\* publications are at least 400 ms apart.
C19_Rate ==
  [][\A i \in Ids, cur \in EarValues :
       ("bpm" \in emitted' /\ Frame(i, TRUE, cur)) =>
          LET began == IF ref.sessionStartRef = 0 - 1 THEN clock
                       ELSE ref.sessionStartRef
              elapsed == clock - began
              count == ref.blinkCountRef
                         + (IF "blink" \in emitted' THEN 1 ELSE 0)
              bpm == state'.blinksPerMin
          IN /\ ref'.blinkCountRef = count
             /\ IF elapsed > 0
                THEN bpm[1] * elapsed = count * 60000 * bpm[2]
                ELSE bpm[1] = 0
             /\ hist.bpmAt # 0 - 1 => clock - hist.bpmAt >= 400]_vars

\* a frame that counts a blink and publishes a rate that includes it, after
\* an earlier publication
C19_Witness ==
  /\ emitted = {"blink", "bpm"}
  /\ state.blinksPerMin = <<12, 1>>
  /\ ref.sessionStartRef = 3000

\* C20: alertOn implies running and not calibrating.
C20_AlertImpliesRunning ==
  state.alertOn => (state.running /\ ~state.calibrating)

\* C21: a desktop notification displayed by a monitor tick implies that the
\* notification setting is on at the time of that tick, also when the
\* setting was switched off during the running session.
C21_NotifOnlyIfEnabled ==
  (op = "tick" /\ "notif" \in emitted) => state.notifEnabled

\* C22: calibration completes on a frame at least CALIBRATION_MS after the
\* non-negative time of the session's first frame, and a reopening with
\* closedFrameCount >= MIN_CLOSED_FRAMES while no blink has been counted in
\* the session (lastBlinkMs still 0) is counted as a blink.
C22_FirstBlinkCounted ==
  [][\A i \in Ids, cur \in EarValues :
       /\ (~calibrated /\ Frame(i, TRUE, cur) /\ ref'.baselineEarRef # <<>>) =>
            /\ ref'.calibStartRef >= 0
            /\ clock - ref'.calibStartRef >= CALIBRATION_MS
       /\ (/\ calibrated
           /\ ref.blinkCountRef = 0
           /\ ReopenCase(cur)
           /\ ref.closedFramesRef >= MIN_CLOSED_FRAMES
           /\ Frame(i, TRUE, cur)) =>
            /\ ref.lastBlinkMsRef = 0
            /\ "blink" \in emitted'
            /\ ref'.blinkCountRef = 1
            /\ state'.blinks = 1]_vars

\* the first blink of a session counted at the very time calibration ended
C22_Witness ==
  /\ op = "frame"
  /\ "blink" \in emitted
  /\ ref.blinkCountRef = 1
  /\ clock = CALIBRATION_MS
  /\ ref.calibStartRef = 0
====
